---------------------------- MODULE Spec2Model ----------------------------
(***************************************************************************)
(* Model of SecurityEventsAnalyzer (security_events_analyzer_final.py):    *)
(* the rule-based threat classifier, the temporal aggregates, the cyclic   *)
(* pattern search, the heatmap pivot and the summary statistics, driven by *)
(* run_full_analysis.                                                      *)
(*                                                                         *)
(* Text is a sequence of one-character strings, so that upper-casing,      *)
(* stripping, substring search and string ordering are computed.  A        *)
(* nullable pandas value is <<>> (NaN / NaT / None) or <<v>>.              *)
(***************************************************************************)
EXTENDS Integers, Sequences, FiniteSets, TLC

(* ------------------------------ bounds -------------------------------- *)
\* most vocabulary pieces concatenated into one signature (SpecClassify)
MaxPieces == 2
\* most events of an ingested list (Spec)
MaxEvents == 3
\* SpecDetect: every event list of at most MaxTokens events is run, and the
\* longer lists in which a short window is repeated up to MaxReps times
MaxTokens == 6
MaxReps == 12

(* ------------------------------- text --------------------------------- *)
LowerCase ==
  <<"a","b","c","d","e","f","g","h","i","j","k","l","m","n","o","p","q","r","s","t","u","v","w","x","y","z">>
UpperCase ==
  <<"A","B","C","D","E","F","G","H","I","J","K","L","M","N","O","P","Q","R","S","T","U","V","W","X","Y","Z">>
\* the characters used, in code point order
CodePoints ==
  <<" ","-",".","0","1","2","3","4","5","6","7","8","9",
    "A","B","C","D","E","F","G","H","I","J","K","L","M","N","O","P","Q","R","S","T","U","V","W","X","Y","Z",
    "a","b","c","d","e","f","g","h","i","j","k","l","m","n","o","p","q","r","s","t","u","v","w","x","y","z">>
Digits == <<"0","1","2","3","4","5","6","7","8","9">>

Chars == {CodePoints[i] : i \in DOMAIN CodePoints}

\* ord(c), up to the gaps between the characters used
OrdTable == [c \in Chars |-> CHOOSE i \in DOMAIN CodePoints : CodePoints[i] = c]
Ord(c) == OrdTable[c]

\* the upper-case form of each character
UpperTable ==
  [c \in Chars |->
     IF \E i \in DOMAIN LowerCase : LowerCase[i] = c
     THEN UpperCase[CHOOSE i \in DOMAIN LowerCase : LowerCase[i] = c]
     ELSE c]
UpperChar(c) == UpperTable[c]

\* str.upper()
Upper(s) == [i \in 1..Len(s) |-> UpperChar(s[i])]

\* the Python operator `kw in s` on strings
Contains(s, kw) ==
  \E i \in 1..(Len(s) - Len(kw) + 1) : SubSeq(s, i, i + Len(kw) - 1) = kw

\* str.strip()
Strip(s) ==
  LET keep == {i \in 1..Len(s) : s[i] # " "}
  IN IF keep = {} THEN <<>>
     ELSE LET lo == CHOOSE i \in keep : \A j \in keep : i <= j
              hi == CHOOSE i \in keep : \A j \in keep : i >= j
          IN SubSeq(s, lo, hi)

\* Python's s < t on strings: by code point, a proper prefix first
StrLess(s, t) ==
  \/ /\ Len(s) < Len(t)
     /\ \A j \in 1..Len(s) : s[j] = t[j]
  \/ \E i \in 1..Len(s) :
       /\ i <= Len(t)
       /\ \A j \in 1..(i - 1) : s[j] = t[j]
       /\ Ord(s[i]) < Ord(t[i])

(* ---------------------------- classifier ------------------------------ *)
KW_MALWARE_CNC == <<"M","A","L","W","A","R","E","-","C","N","C">>
KW_WIN_TROJAN == <<"W","I","N",".","T","R","O","J","A","N">>
KW_USER_AGENT == <<"U","S","E","R","-","A","G","E","N","T">>
KW_EXPLOIT == <<"E","X","P","L","O","I","T">>
KW_WIN32K == <<"W","I","N","3","2","K">>
KW_JAVA_JRE == <<"J","A","V","A"," ","J","R","E">>
KW_WEBLOGIC == <<"W","E","B","L","O","G","I","C">>
KW_ORACLE_9I == <<"O","R","A","C","L","E"," ","9","I">>
KW_IIS == <<"I","I","S">>
KW_NETBIOS == <<"N","E","T","B","I","O","S">>
KW_DCERPC == <<"D","C","E","R","P","C">>
KW_SMB_DS == <<"S","M","B","-","D","S">>
KW_INDICATOR_COMPROMISE == <<"I","N","D","I","C","A","T","O","R","-","C","O","M","P","R","O","M","I","S","E">>
KW_MYSQL == <<"M","Y","S","Q","L">>
KW_RCE == <<"R","C","E">>
KW_PRIVILEGE == <<"P","R","I","V","I","L","E","G","E">>
KW_ELEVATION == <<"E","L","E","V","A","T","I","O","N">>
KW_BUFFER == <<"B","U","F","F","E","R">>
KW_BO == <<"B","O">>
KW_OVERFLOW == <<"O","V","E","R","F","L","O","W">>

\* faulty variant: the RCE branch tested before the EXPLOIT branch
extract_detailed_threat_category_RceFirst(signature) ==
  LET sig == Upper(signature)
  IN IF Contains(sig, KW_MALWARE_CNC) THEN
       IF Contains(sig, KW_WIN_TROJAN) THEN <<"MALWARE", "Trojan/Win.Jadtre">>
       ELSE IF Contains(sig, KW_USER_AGENT) THEN <<"MALWARE", "C&C Communication">>
       ELSE <<"MALWARE", "Malware Activity">>
     ELSE IF Contains(sig, KW_RCE) THEN <<"EXPLOIT", "Remote Code Execution">>
     ELSE IF Contains(sig, KW_EXPLOIT) THEN
       IF Contains(sig, KW_WIN32K) THEN <<"EXPLOIT", "Privilege Escalation (Win32k)">>
       ELSE IF Contains(sig, KW_JAVA_JRE) \/ Contains(sig, KW_WEBLOGIC)
         THEN <<"EXPLOIT", "Remote Code Execution (Java)">>
       ELSE IF Contains(sig, KW_ORACLE_9I) THEN <<"EXPLOIT", "Buffer Overflow (Oracle)">>
       ELSE IF Contains(sig, KW_IIS) THEN <<"EXPLOIT", "Web Server Exploit">>
       ELSE <<"EXPLOIT", "Generic Exploit">>
     ELSE IF Contains(sig, KW_NETBIOS) THEN
       IF Contains(sig, KW_DCERPC) THEN <<"NETWORK", "RPC Service Exploit">>
       ELSE IF Contains(sig, KW_SMB_DS) THEN <<"NETWORK", "SMB Service Exploit">>
       ELSE <<"NETWORK", "Network Protocol Anomaly">>
     ELSE IF Contains(sig, KW_INDICATOR_COMPROMISE) THEN
       IF Contains(sig, KW_MYSQL) THEN <<"INDICATOR", "Database Reconnaissance">>
       ELSE <<"INDICATOR", "Suspicious Activity">>
     ELSE IF Contains(sig, KW_PRIVILEGE) \/ Contains(sig, KW_ELEVATION)
       THEN <<"EXPLOIT", "Privilege Escalation">>
     ELSE IF Contains(sig, KW_BUFFER) \/ Contains(sig, KW_BO) \/ Contains(sig, KW_OVERFLOW)
       THEN <<"EXPLOIT", "Buffer Overflow">>
     ELSE <<"OTHER", "Uncategorized">>

\* faulty variant: the last branch forgets the short keyword BO
extract_detailed_threat_category_NoBO(signature) ==
  LET sig == Upper(signature)
  IN IF Contains(sig, KW_MALWARE_CNC) THEN
       IF Contains(sig, KW_WIN_TROJAN) THEN <<"MALWARE", "Trojan/Win.Jadtre">>
       ELSE IF Contains(sig, KW_USER_AGENT) THEN <<"MALWARE", "C&C Communication">>
       ELSE <<"MALWARE", "Malware Activity">>
     ELSE IF Contains(sig, KW_EXPLOIT) THEN
       IF Contains(sig, KW_WIN32K) THEN <<"EXPLOIT", "Privilege Escalation (Win32k)">>
       ELSE IF Contains(sig, KW_JAVA_JRE) \/ Contains(sig, KW_WEBLOGIC)
         THEN <<"EXPLOIT", "Remote Code Execution (Java)">>
       ELSE IF Contains(sig, KW_ORACLE_9I) THEN <<"EXPLOIT", "Buffer Overflow (Oracle)">>
       ELSE IF Contains(sig, KW_IIS) THEN <<"EXPLOIT", "Web Server Exploit">>
       ELSE <<"EXPLOIT", "Generic Exploit">>
     ELSE IF Contains(sig, KW_NETBIOS) THEN
       IF Contains(sig, KW_DCERPC) THEN <<"NETWORK", "RPC Service Exploit">>
       ELSE IF Contains(sig, KW_SMB_DS) THEN <<"NETWORK", "SMB Service Exploit">>
       ELSE <<"NETWORK", "Network Protocol Anomaly">>
     ELSE IF Contains(sig, KW_INDICATOR_COMPROMISE) THEN
       IF Contains(sig, KW_MYSQL) THEN <<"INDICATOR", "Database Reconnaissance">>
       ELSE <<"INDICATOR", "Suspicious Activity">>
     ELSE IF Contains(sig, KW_RCE) THEN <<"EXPLOIT", "Remote Code Execution">>
     ELSE IF Contains(sig, KW_PRIVILEGE) \/ Contains(sig, KW_ELEVATION)
       THEN <<"EXPLOIT", "Privilege Escalation">>
     ELSE IF Contains(sig, KW_BUFFER) \/ Contains(sig, KW_OVERFLOW)
       THEN <<"EXPLOIT", "Buffer Overflow">>
     ELSE <<"OTHER", "Uncategorized">>

\* extract_detailed_threat_category: <<main_cat, detail>>
extract_detailed_threat_category(signature) ==
  LET sig == Upper(signature)
  IN IF Contains(sig, KW_MALWARE_CNC) THEN
       IF Contains(sig, KW_WIN_TROJAN) THEN <<"MALWARE", "Trojan/Win.Jadtre">>
       ELSE IF Contains(sig, KW_USER_AGENT) THEN <<"MALWARE", "C&C Communication">>
       ELSE <<"MALWARE", "Malware Activity">>
     ELSE IF Contains(sig, KW_EXPLOIT) THEN
       IF Contains(sig, KW_WIN32K) THEN <<"EXPLOIT", "Privilege Escalation (Win32k)">>
       ELSE IF Contains(sig, KW_JAVA_JRE) \/ Contains(sig, KW_WEBLOGIC)
         THEN <<"EXPLOIT", "Remote Code Execution (Java)">>
       ELSE IF Contains(sig, KW_ORACLE_9I) THEN <<"EXPLOIT", "Buffer Overflow (Oracle)">>
       ELSE IF Contains(sig, KW_IIS) THEN <<"EXPLOIT", "Web Server Exploit">>
       ELSE <<"EXPLOIT", "Generic Exploit">>
     ELSE IF Contains(sig, KW_NETBIOS) THEN
       IF Contains(sig, KW_DCERPC) THEN <<"NETWORK", "RPC Service Exploit">>
       ELSE IF Contains(sig, KW_SMB_DS) THEN <<"NETWORK", "SMB Service Exploit">>
       ELSE <<"NETWORK", "Network Protocol Anomaly">>
     ELSE IF Contains(sig, KW_INDICATOR_COMPROMISE) THEN
       IF Contains(sig, KW_MYSQL) THEN <<"INDICATOR", "Database Reconnaissance">>
       ELSE <<"INDICATOR", "Suspicious Activity">>
     ELSE IF Contains(sig, KW_RCE) THEN <<"EXPLOIT", "Remote Code Execution">>
     ELSE IF Contains(sig, KW_PRIVILEGE) \/ Contains(sig, KW_ELEVATION)
       THEN <<"EXPLOIT", "Privilege Escalation">>
     ELSE IF Contains(sig, KW_BUFFER) \/ Contains(sig, KW_BO) \/ Contains(sig, KW_OVERFLOW)
       THEN <<"EXPLOIT", "Buffer Overflow">>
     ELSE <<"OTHER", "Uncategorized">>

(* ------------------------------ pandas -------------------------------- *)
\* a missing value (NaN, NaT, None); a present value v is <<v>>
Null == <<>>
IsNull(x) == x = Null

Pad2(n) == <<Digits[(n \div 10) + 1], Digits[(n % 10) + 1]>>
Pad4(n) == Pad2(n \div 100) \o Pad2(n % 100)

\* faulty variant: day and month written without the leading zero
DateToStr_NoPad(d) ==
  LET num(n) == IF n < 10 THEN <<Digits[n + 1]>> ELSE Pad2(n)
  IN Pad4(d[1]) \o <<"-">> \o num(d[2]) \o <<"-">> \o num(d[3])

\* str(datetime.date): YYYY-MM-DD
DateToStr(d) == Pad4(d[1]) \o <<"-">> \o Pad2(d[2]) \o <<"-">> \o Pad2(d[3])

\* Series.astype(str) on the date column: NaT becomes the text NaT
AsTypeStr(date) == IF IsNull(date) THEN <<"N","a","T">> ELSE DateToStr(date[1])

\* pd.to_datetime(errors='coerce') of one raw field: a timestamp <<y,m,d,hh,mm>> or NaT
ToDatetime(raw) == IF raw.kind = "iso" THEN <<raw.value>> ELSE Null
\* .dt.date: NaT where the timestamp is NaT
DtDate(ts) == IF IsNull(ts) THEN Null ELSE <<SubSeq(ts[1], 1, 3)>>
\* faulty variant: a missing timestamp is given hour 0
DtHour_ZeroForNaT(ts) == IF IsNull(ts) THEN <<0>> ELSE <<ts[1][4]>>
\* .dt.hour: NaN where the timestamp is NaT
DtHour(ts) == IF IsNull(ts) THEN Null ELSE <<ts[1][4]>>

\* order of datetime.date and of Timestamp values
TupleLess(a, b) ==
  \E i \in 1..Len(a) : (\A j \in 1..(i - 1) : a[j] = b[j]) /\ a[i] < b[i]
IntLess(a, b) == a < b
\* alphabetical order of the main category labels
CategoryOrder == <<"EXPLOIT", "INDICATOR", "MALWARE", "NETWORK", "OTHER">>
CategoryLess(a, b) ==
  \E i, j \in DOMAIN CategoryOrder :
    CategoryOrder[i] = a /\ CategoryOrder[j] = b /\ i < j

\* a < b for two values of one kind: "int", "tuple" (dates, timestamps),
\* "str" (text) or "category" (main category labels)
Less(kind, a, b) ==
  CASE kind = "int" -> IntLess(a, b)
    [] kind = "tuple" -> TupleLess(a, b)
    [] kind = "str" -> StrLess(a, b)
    [] kind = "category" -> CategoryLess(a, b)

\* the elements of the finite set S in ascending order
SortSet(S, kind) ==
  [i \in 1..Cardinality(S) |->
     CHOOSE x \in S : Cardinality({y \in S : Less(kind, y, x)}) = i - 1]

\* a column of a frame, as the sequence of its values
Column(frame, name) == [i \in 1..Len(frame.rows) |-> frame.rows[i][name]]

\* Series.value_counts() of a nullable column (dropna=True): value -> count
ValueCountsNullable(col) ==
  LET vals == {col[i][1] : i \in {j \in DOMAIN col : ~IsNull(col[j])}}
  IN [v \in vals |-> Cardinality({i \in DOMAIN col : col[i] = <<v>>})]

\* Series.value_counts() of a column without missing values
ValueCounts(col) ==
  LET vals == {col[i] : i \in DOMAIN col}
  IN [v \in vals |-> Cardinality({i \in DOMAIN col : col[i] = v})]

\* .sort_index(): the <<label, count>> items of a Series in ascending label order
SortIndex(counts, kind) ==
  LET keys == SortSet(DOMAIN counts, kind)
  IN [i \in 1..Len(keys) |-> <<keys[i], counts[keys[i]]>>]

\* Series.max() of a non-empty sorted Series
SeriesMax(items) ==
  CHOOSE c \in {items[i][2] : i \in DOMAIN items} :
    \A i \in DOMAIN items : items[i][2] <= c

\* Series.idxmax() of a non-empty Series: the label of the first maximal row
IdxMax(items) ==
  items[CHOOSE i \in DOMAIN items :
          /\ items[i][2] = SeriesMax(items)
          /\ \A j \in 1..(i - 1) : items[j][2] < SeriesMax(items)][1]

(* ------------------------------- input -------------------------------- *)
\* raw "timestamp" field of one event of the JSON file: a well-formed time,
\* a text that is no time, or no such key in the event
IsoTime(y, m, d, hh, mm) == [kind |-> "iso", value |-> <<y, m, d, hh, mm>>]
BadTime == [kind |-> "text", value |-> <<>>]
NoTime == [kind |-> "missing", value |-> <<>>]

RawTimes ==
  { IsoTime(2024, 1, 9, 9, 30), IsoTime(2024, 1, 9, 14, 5),
    IsoTime(2024, 1, 10, 9, 0), BadTime, NoTime }

\* signatures of the event lists of Spec
SigScan == <<"s","c","a","n">>
SigBot == <<" ","B","o","t">>
EventSignatures == {SigScan, SigBot}

\* signatures of the event lists of SpecDetect
TokA == <<"A">>
TokB == <<"B">>

SeqsUpTo(S, n) == UNION {[1..k -> S] : k \in 0..n}

RECURSIVE Repeat(_, _)
Repeat(w, r) == IF r = 0 THEN <<>> ELSE w \o Repeat(w, r - 1)

\* token lists of SpecDetect: all short ones, and a window repeated r times
\* between a prefix and a suffix of at most one token
RepeatedWindows == {<<TokA>>, <<TokA, TokB>>, <<TokB, TokA>>, <<TokA, TokA, TokB>>}
DetectTokenLists ==
  SeqsUpTo({TokA, TokB}, MaxTokens)
  \cup {pre \o Repeat(w, r) \o suf :
          pre \in SeqsUpTo({TokA, TokB}, 1), suf \in SeqsUpTo({TokA, TokB}, 1),
          w \in RepeatedWindows, r \in 2..MaxReps}

\* the pieces signatures of SpecClassify are concatenated from
Vocabulary ==
  { <<"M","A","L","W","A","R","E","-","C","N","C">>,
    <<"W","i","n",".","T","r","o","j","a","n">>,
    <<"U","s","e","r","-","A","g","e","n","t">>,
    <<"E","X","P","L","O","I","T">>,
    <<"e","x","p","l","o","i","t">>,
    <<"W","i","n","3","2","k">>,
    <<"J","a","v","a"," ","J","R","E">>,
    <<"W","e","b","L","o","g","i","c">>,
    <<"O","r","a","c","l","e"," ","9","i">>,
    <<"I","I","S">>,
    <<"N","E","T","B","I","O","S">>,
    <<"D","C","E","R","P","C">>,
    <<"S","M","B","-","D","S">>,
    <<"I","N","D","I","C","A","T","O","R","-","C","O","M","P","R","O","M","I","S","E">>,
    <<"M","y","S","Q","L">>,
    <<"R","C","E">>,
    <<"S","o","u","r","c","e">>,
    <<"p","r","i","v","i","l","e","g","e">>,
    <<"E","l","e","v","a","t","i","o","n">>,
    <<"B","u","f","f","e","r">>,
    <<"b","o">>,
    <<"O","v","e","r","f","l","o","w">>,
    <<"s","c","a","n">>,
    <<" ">> }

RECURSIVE Concat(_)
Concat(pieces) ==
  IF pieces = <<>> THEN <<>> ELSE pieces[1] \o Concat(Tail(pieces))

\* non-empty signature texts built from the vocabulary
VocabularySignatures ==
  {Concat(p) : p \in SeqsUpTo(Vocabulary, MaxPieces)} \ {<<>>}

Event(sig, raw) == [signature |-> sig, timestamp |-> raw]

\* window length lists given to self.pattern_lengths_to_check
DefaultLengths == <<3, 5, 8>>
LengthConfigs ==
  { <<1>>, <<2>>, <<3>>, <<0>>, <<0 - 1>>, <<1, 2>>, <<2, 1>>, <<2, 0>>, DefaultLengths }
PipelineLengthConfigs == { <<1>>, <<1, 2>>, DefaultLengths }

(* ------------------------------- state -------------------------------- *)
VARIABLES
  events,                    \* the "events" list of the JSON file
  pattern_lengths_to_check,  \* self.pattern_lengths_to_check
  pc,                        \* position of run_full_analysis
  df,                        \* self.df: [columns, rows]
  signature_counts,          \* result of analyze_signature_distribution, Null for None
  hourly_counts,             \* hour histogram, sorted by hour
  most_active_hour,          \* hourly_counts.idxmax(), Null until computed
  daily_counts,              \* date histogram, sorted by date
  signatures_list,           \* the tokens the pattern search scans
  patterns_found,            \* the flag of the pattern search
  length_index,              \* position of the for loop over pattern_lengths_to_check
  report,                    \* what the pattern search printed, one entry per length
  heatmap_data,              \* the pivot table of _create_comprehensive_heatmap
  summary_stats,             \* the summary of export_results, Null when not written
  error,                     \* the exception that ended the run, "none" otherwise
  run,                       \* which call of run_full_analysis on this object: 1 or 2
  first_run                  \* what the first call produced, Null during the first call

vars ==
  <<events, pattern_lengths_to_check, pc, df, signature_counts, hourly_counts,
    most_active_hour, daily_counts, signatures_list, patterns_found, length_index,
    report, heatmap_data, summary_stats, error, run, first_run>>

\* self.df = None, and nothing computed yet
NoFrame == [columns |-> {}, rows |-> <<>>]
NoPivot == [index |-> <<>>, columns |-> <<>>, cells |-> <<>>]

InitRun(evs, lengths) ==
  /\ events = evs
  /\ pattern_lengths_to_check = lengths
  /\ pc = "start"
  /\ df = NoFrame
  /\ signature_counts = Null
  /\ hourly_counts = <<>>
  /\ most_active_hour = Null
  /\ daily_counts = <<>>
  /\ signatures_list = <<>>
  /\ patterns_found = FALSE
  /\ length_index = 1
  /\ report = <<>>
  /\ heatmap_data = NoPivot
  /\ summary_stats = Null
  /\ error = "none"
  /\ run = 1
  /\ first_run = Null

\* event lists of mixed signatures and timestamps
Init ==
  \E evs \in SeqsUpTo({Event(s, t) : s \in EventSignatures, t \in RawTimes}, MaxEvents),
     lengths \in PipelineLengthConfigs :
    InitRun(evs, lengths)

\* one event with a signature text built from the vocabulary
InitClassify ==
  \E s \in VocabularySignatures, t \in {IsoTime(2024, 1, 9, 9, 30), BadTime} :
    InitRun(<<Event(s, t)>>, DefaultLengths)

\* event lists of two short signatures, all with the same valid timestamp
InitDetect ==
  \E toks \in DetectTokenLists, lengths \in LengthConfigs :
    InitRun([i \in 1..Len(toks) |-> Event(toks[i], IsoTime(2024, 1, 9, 9, 30))], lengths)

(* ------------------------- load_and_clean_data ------------------------ *)
\* one row of the frame built from one event; the timestamp columns exist
\* when at least one event carries the key
LoadRow(e, hasTimestamp) ==
  LET sig == Strip(e.signature)
      ts == ToDatetime(e.timestamp)
      date == DtDate(ts)
  IN IF hasTimestamp
     THEN [signature |-> sig, timestamp |-> ts, date |-> date,
           hour |-> DtHour(ts), date_str |-> AsTypeStr(date)]
     ELSE [signature |-> sig]

LoadFrame(evs) ==
  LET hasTimestamp == \E i \in DOMAIN evs : evs[i].timestamp.kind # "missing"
  IN [columns |->
        IF evs = <<>> THEN {}
        ELSE IF hasTimestamp
          THEN {"signature", "timestamp", "date", "hour", "date_str"}
          ELSE {"signature"},
      rows |-> [i \in 1..Len(evs) |-> LoadRow(evs[i], hasTimestamp)]]

LoadAndCleanData ==
  /\ pc = "start"
  /\ df' = LoadFrame(events)
  /\ pc' = "loaded"
  /\ UNCHANGED <<run, first_run, events, pattern_lengths_to_check, signature_counts, hourly_counts,
                 most_active_hour, daily_counts, signatures_list, patterns_found,
                 length_index, report, heatmap_data, summary_stats, error>>

(* -------------------- analyze_signature_distribution ------------------ *)
\* faulty variant: the rows of category OTHER are filtered out of the frame
Classified_DropsOther(frame) ==
  LET rows == [i \in 1..Len(frame.rows) |->
                 LET cat == extract_detailed_threat_category(frame.rows[i].signature)
                 IN frame.rows[i] @@ [threat_main_category |-> cat[1],
                                      threat_detailed_category |-> cat[2]]]
  IN [columns |-> frame.columns \cup {"threat_main_category", "threat_detailed_category"},
      rows |-> SelectSeq(rows, LAMBDA r : r.threat_main_category # "OTHER")]

\* df[['threat_main_category', 'threat_detailed_category']] = df['signature'].apply(...)
Classified(frame) ==
  [columns |-> frame.columns \cup {"threat_main_category", "threat_detailed_category"},
   rows |-> [i \in 1..Len(frame.rows) |->
               LET cat == extract_detailed_threat_category(frame.rows[i].signature)
               IN frame.rows[i] @@ [threat_main_category |-> cat[1],
                                    threat_detailed_category |-> cat[2]]]]

AnalyzeSignatureDistribution ==
  /\ pc = "loaded"
  /\ IF "signature" \notin df.columns
     THEN /\ signature_counts' = Null
          /\ df' = df
     ELSE /\ signature_counts' = <<ValueCounts(Column(df, "signature"))>>
          /\ df' = Classified(df)
  /\ pc' = "distribution"
  /\ UNCHANGED <<run, first_run, events, pattern_lengths_to_check, hourly_counts, most_active_hour,
                 daily_counts, signatures_list, patterns_found, length_index, report,
                 heatmap_data, summary_stats, error>>

NextClassify == LoadAndCleanData \/ AnalyzeSignatureDistribution

SpecClassify == InitClassify /\ [][NextClassify]_vars

(* ---------------------- analyze_temporal_patterns --------------------- *)
\* Python's seq[a:b]: a negative index counts from the end, both are clipped
PyIndex(n, x) ==
  IF x < 0 THEN (IF x + n < 0 THEN 0 ELSE x + n) ELSE (IF x > n THEN n ELSE x)
PySlice(seq, a, b) ==
  LET lo == PyIndex(Len(seq), a)
      hi == PyIndex(Len(seq), b)
  IN IF lo >= hi THEN <<>> ELSE SubSeq(seq, lo + 1, hi)

\* range(2, 10) of the extension loop
ExtendFirst == 2
ExtendStop == 10

\* the stop of range(len(signatures_list) - pattern_length * 2)
ScanStop(n, l) == n - l * 2

\* faulty variant: only the start of the window is kept inside the sequence
ExtensionPastEnd_StartOnly(n, l, check_start) == check_start > n
\* faulty variant: the last window that still fits is refused
ExtensionPastEnd_OffByOne(n, l, check_start) == check_start + l >= n
\* if check_start + pattern_length > len(signatures_list): break
ExtensionPastEnd(n, l, check_start) == check_start + l > n

\* the for loop over i: the start indices visited, and the first match if any
RECURSIVE Scan(_, _, _, _)
Scan(tokens, l, i, visited) ==
  IF i >= ScanStop(Len(tokens), l)
  THEN [found |-> FALSE, start |-> Null, pattern |-> <<>>, visited |-> visited]
  ELSE LET pattern == PySlice(tokens, i, i + l)
           next_pattern == PySlice(tokens, i + l, i + l * 2)
       IN IF pattern = next_pattern
          THEN [found |-> TRUE, start |-> <<i>>, pattern |-> pattern,
                visited |-> Append(visited, i)]
          ELSE Scan(tokens, l, i + 1, Append(visited, i))

\* the for loop over k after a match at i: the repetitions counted and the
\* windows [check_start, check_start + l) compared
RECURSIVE Extend(_, _, _, _, _, _)
Extend(tokens, l, i, k, repetitions, checks) ==
  IF k >= ExtendStop
  THEN [repetitions |-> repetitions, checks |-> checks]
  ELSE LET check_start == i + l * k
       IN IF ExtensionPastEnd(Len(tokens), l, check_start)
          THEN [repetitions |-> repetitions, checks |-> checks]
          ELSE IF PySlice(tokens, check_start, check_start + l) = PySlice(tokens, i, i + l)
            THEN Extend(tokens, l, i, k + 1, repetitions + 1, Append(checks, k))
            ELSE [repetitions |-> repetitions, checks |-> Append(checks, k)]

\* one pass of the body of `for pattern_length in self.pattern_lengths_to_check`,
\* entered with the flag patterns_found = flag: what it prints and the flag after
\*   kind: "match" (the pattern and its start are printed), "not_found" (the
\*   line saying no pattern of this length exists is printed), "silent" (nothing
\*   is printed about the outcome)
CheckLength(tokens, l, flag) ==
  LET scan == Scan(tokens, l, 0, <<>>)
      ext == IF scan.found
             THEN Extend(tokens, l, scan.start[1], ExtendFirst, 1, <<>>)
             ELSE [repetitions |-> 0, checks |-> <<>>]
      flagAfter == flag \/ scan.found
  IN [entry |->
        [length |-> l,
         kind |-> IF scan.found THEN "match"
                  ELSE IF ~flagAfter THEN "not_found" ELSE "silent",
         start |-> scan.start,
         pattern |-> scan.pattern,
         repetitions |-> ext.repetitions,
         repetitions_printed |-> ext.repetitions > 1,
         visited |-> scan.visited,
         checks |-> ext.checks],
      patterns_found |-> flagAfter]

\* faulty variant: the flag of the pattern search is not cleared at line 275,
\* as if it were set up once with the object
AnalyzeTemporalAggregates_FlagKept ==
  /\ pc = "distribution"
  /\ IF "timestamp" \notin df.columns
     THEN /\ pc' = "temporal_done"
          /\ UNCHANGED <<hourly_counts, most_active_hour, daily_counts,
                         signatures_list, error>>
     ELSE LET hourly == SortIndex(ValueCountsNullable(Column(df, "hour")), "int")
          IN /\ hourly_counts' = hourly
             /\ IF hourly = <<>>
                THEN /\ error' = "ValueError"
                     /\ pc' = "crashed"
                     /\ UNCHANGED <<most_active_hour, daily_counts, signatures_list>>
                ELSE /\ most_active_hour' = <<IdxMax(hourly)>>
                     /\ daily_counts' =
                          SortIndex(ValueCountsNullable(Column(df, "date")), "tuple")
                     /\ signatures_list' = Column(df, "signature")
                     /\ pc' = "patterns"
                     /\ error' = error
  /\ patterns_found' = patterns_found
  /\ length_index' = 1
  /\ UNCHANGED <<run, first_run, events, pattern_lengths_to_check, df, signature_counts,
                 report, heatmap_data, summary_stats>>

\* lines 229-275: the hour and date histograms, then the set-up of the search
AnalyzeTemporalAggregates ==
  /\ pc = "distribution"
  /\ IF "timestamp" \notin df.columns
     THEN \* return: neither histograms nor pattern search
          /\ pc' = "temporal_done"
          /\ UNCHANGED <<hourly_counts, most_active_hour, daily_counts,
                         signatures_list, error>>
     ELSE LET hourly == SortIndex(ValueCountsNullable(Column(df, "hour")), "int")
          IN /\ hourly_counts' = hourly
             /\ IF hourly = <<>>
                THEN \* hourly_counts.idxmax() of an empty Series raises
                     /\ error' = "ValueError"
                     /\ pc' = "crashed"
                     /\ UNCHANGED <<most_active_hour, daily_counts, signatures_list>>
                ELSE /\ most_active_hour' = <<IdxMax(hourly)>>
                     /\ daily_counts' =
                          SortIndex(ValueCountsNullable(Column(df, "date")), "tuple")
                     /\ signatures_list' = Column(df, "signature")
                     /\ pc' = "patterns"
                     /\ error' = error
  /\ patterns_found' = FALSE
  /\ length_index' = 1
  /\ UNCHANGED <<run, first_run, events, pattern_lengths_to_check, df, signature_counts, report,
                 heatmap_data, summary_stats>>

\* lines 277-310: one window length
CheckPatternLength ==
  /\ pc = "patterns"
  /\ length_index <= Len(pattern_lengths_to_check)
  /\ LET res == CheckLength(signatures_list, pattern_lengths_to_check[length_index],
                            patterns_found)
     IN /\ report' = Append(report, res.entry)
        /\ patterns_found' = res.patterns_found
  /\ length_index' = length_index + 1
  /\ UNCHANGED <<run, first_run, events, pattern_lengths_to_check, pc, df, signature_counts,
                 hourly_counts, most_active_hour, daily_counts, signatures_list,
                 heatmap_data, summary_stats, error>>

\* the for loop over the window lengths is exhausted: the method returns
FinishTemporalPatterns ==
  /\ pc = "patterns"
  /\ length_index > Len(pattern_lengths_to_check)
  /\ pc' = "temporal_done"
  /\ UNCHANGED <<run, first_run, events, pattern_lengths_to_check, df, signature_counts, hourly_counts,
                 most_active_hour, daily_counts, signatures_list, patterns_found,
                 length_index, report, heatmap_data, summary_stats, error>>

(* -------------------- _create_comprehensive_heatmap ------------------- *)
\* df.pivot_table(index='date_str', columns='hour', values='signature',
\* aggfunc='count', fill_value=0).sort_index(): the rows whose hour is NaN
\* form no group; date_str is text and never missing
PivotTable(frame) ==
  LET rows == frame.rows
      kept == {i \in 1..Len(rows) : ~IsNull(rows[i].hour)}
      index == SortSet({rows[i].date_str : i \in kept}, "str")
      columns == SortSet({rows[i].hour[1] : i \in kept}, "int")
  IN [index |-> index,
      columns |-> columns,
      cells |-> [r \in 1..Len(index) |-> [c \in 1..Len(columns) |->
                   Cardinality({i \in kept : /\ rows[i].date_str = index[r]
                                             /\ rows[i].hour[1] = columns[c]})]]]

\* visualize_distribution, called when analyze_signature_distribution
\* returned a Series; of its charts only the heatmap's table is kept
VisualizeDistribution ==
  /\ pc = "temporal_done"
  /\ heatmap_data' =
       IF /\ ~IsNull(signature_counts)
          /\ "date" \in df.columns
          /\ "hour" \in df.columns
       THEN PivotTable(df)
       ELSE heatmap_data
  /\ pc' = "visualized"
  /\ UNCHANGED <<run, first_run, events, pattern_lengths_to_check, df, signature_counts, hourly_counts,
                 most_active_hour, daily_counts, signatures_list, patterns_found,
                 length_index, report, summary_stats, error>>

(* ----------------------------- export_results ------------------------- *)
\* the values of maximal count
Modes(counts) ==
  {v \in DOMAIN counts : \A w \in DOMAIN counts : counts[w] <= counts[v]}

\* faulty variant: of the most frequent values, the largest one
ModeFirst_Last(counts, kind) ==
  LET sorted == SortSet(Modes(counts), kind) IN sorted[Len(sorted)]

\* Series.mode()[0]: the modes come sorted ascending, [0] takes the smallest
ModeFirst(counts, kind) == SortSet(Modes(counts), kind)[1]

\* the text 'N/A' of a statistic whose column does not exist
NotAvailable == <<"N/A">>

\* Series.min() and .max() of the timestamp column, NaT when all are NaT
TimestampMin(col) ==
  LET present == {col[i][1] : i \in {j \in DOMAIN col : ~IsNull(col[j])}}
  IN IF present = {} THEN Null ELSE <<SortSet(present, "tuple")[1]>>
TimestampMax(col) ==
  LET present == {col[i][1] : i \in {j \in DOMAIN col : ~IsNull(col[j])}}
  IN IF present = {} THEN Null ELSE <<SortSet(present, "tuple")[Cardinality(present)]>>

\* whether building summary_stats raises (the try block then writes no summary):
\* df['signature'] of a frame without that column, NaT.strftime, mode()[0] of
\* an empty result, the division by len(df) = 0
SummaryRaises(frame) ==
  \/ "signature" \notin frame.columns
  \/ /\ "timestamp" \in frame.columns
     /\ IsNull(TimestampMin(Column(frame, "timestamp")))
  \/ /\ "hour" \in frame.columns
     /\ DOMAIN ValueCountsNullable(Column(frame, "hour")) = {}
  \/ Len(frame.rows) = 0

SummaryStats(frame) ==
  LET sigs == ValueCounts(Column(frame, "signature"))
      hasTs == "timestamp" \in frame.columns
  IN [total_events |-> Len(frame.rows),
      unique_signatures |-> Cardinality(DOMAIN sigs),
      period_start |-> IF hasTs THEN TimestampMin(Column(frame, "timestamp"))
                       ELSE NotAvailable,
      period_end |-> IF hasTs THEN TimestampMax(Column(frame, "timestamp"))
                     ELSE NotAvailable,
      most_active_hour |->
        IF "hour" \in frame.columns
        THEN <<ModeFirst(ValueCountsNullable(Column(frame, "hour")), "int")>>
        ELSE NotAvailable,
      days |-> IF "date" \in frame.columns
               THEN <<Cardinality(DOMAIN ValueCountsNullable(Column(frame, "date")))>>
               ELSE NotAvailable,
      main_category |->
        IF "threat_main_category" \in frame.columns
        THEN <<ModeFirst(ValueCounts(Column(frame, "threat_main_category")), "category")>>
        ELSE NotAvailable,
      top_signature |-> <<ModeFirst(sigs, "str")>>,
      \* nunique / len(df), before the percent formatting
      uniqueness |-> <<Cardinality(DOMAIN sigs), Len(frame.rows)>>]

ExportResults ==
  /\ pc = "visualized"
  /\ summary_stats' = IF SummaryRaises(df) THEN Null ELSE <<SummaryStats(df)>>
  /\ pc' = "done"
  /\ UNCHANGED <<run, first_run, events, pattern_lengths_to_check, df, signature_counts, hourly_counts,
                 most_active_hour, daily_counts, signatures_list, patterns_found,
                 length_index, report, heatmap_data, error>>

(* --------------------------- run_full_analysis ------------------------ *)
Next ==
  \/ LoadAndCleanData
  \/ AnalyzeSignatureDistribution
  \/ AnalyzeTemporalAggregates
  \/ CheckPatternLength
  \/ FinishTemporalPatterns
  \/ VisualizeDistribution
  \/ ExportResults

Spec == Init /\ [][Next]_vars

SpecDetect == InitDetect /\ [][Next]_vars

\* event lists for the runs whose termination is checked: every list of at
\* most MaxTokens events over two signatures, and runs of up to MaxReps equal
\* signatures with at most one event before and after
TerminateTokenLists ==
  SeqsUpTo({TokA, TokB}, MaxTokens) \cup
  {pre \o Repeat(<<TokA>>, r) \o suf :
     pre \in SeqsUpTo({TokA, TokB}, 1), suf \in SeqsUpTo({TokA, TokB}, 1),
     r \in 2..MaxReps}

\* positive window lengths
TerminateLengthConfigs == { <<1, 2>>, <<2, 1>>, <<3>>, DefaultLengths }

InitTerminate ==
  \E toks \in TerminateTokenLists, lengths \in TerminateLengthConfigs :
    InitRun([i \in 1..Len(toks) |-> Event(toks[i], IsoTime(2024, 1, 9, 9, 30))], lengths)

\* the program is one thread that runs each statement after the other: as
\* long as a step of the run is possible, one is taken
SpecTerminate == InitTerminate /\ [][Next]_vars /\ WF_vars(Next)

\* what one call of run_full_analysis produced: the classified frame, the
\* signature counts, the aggregates, the pattern search's report, the heatmap
\* table, the summary, and how the call ended
RunOutputs ==
  [df |-> df,
   signature_counts |-> signature_counts,
   hourly_counts |-> hourly_counts,
   most_active_hour |-> most_active_hour,
   daily_counts |-> daily_counts,
   report |-> report,
   heatmap_data |-> heatmap_data,
   summary_stats |-> summary_stats,
   error |-> error,
   pc |-> pc]

\* run_full_analysis is called a second time on the same object and the same
\* file, after the first call returned or raised: self.df and every other
\* value stay as the first call left them; the printout of the second call is
\* collected apart from that of the first
RunAgain ==
  /\ run = 1
  /\ pc \in {"done", "crashed"}
  /\ first_run' = <<RunOutputs>>
  /\ run' = 2
  /\ pc' = "start"
  /\ report' = <<>>
  /\ error' = "none"
  /\ UNCHANGED <<events, pattern_lengths_to_check, df, signature_counts, hourly_counts,
                 most_active_hour, daily_counts, signatures_list, patterns_found,
                 length_index, heatmap_data, summary_stats>>

\* window lengths for which a length without a repeat precedes one with a repeat
TwiceLengthConfigs == { <<1, 2>>, <<2, 1>> }

InitTwice ==
  \E evs \in SeqsUpTo({Event(s, t) : s \in EventSignatures, t \in RawTimes}, MaxEvents),
     lengths \in TwiceLengthConfigs :
    InitRun(evs, lengths)

NextTwice ==
  \/ LoadAndCleanData
  \/ AnalyzeSignatureDistribution
  \/ AnalyzeTemporalAggregates
  \/ CheckPatternLength
  \/ FinishTemporalPatterns
  \/ VisualizeDistribution
  \/ ExportResults
  \/ RunAgain

SpecTwice == InitTwice /\ [][NextTwice]_vars

(* ====================== properties: the classifier ==================== *)
\* the taxonomy of extract_detailed_threat_category as an ordered list of
\* rules: the keywords of which one must occur, the main category, the nested
\* checks in order, and the detail used when no nested check matches
Rule(any, main, nested, generic) ==
  [any |-> any, main |-> main, nested |-> nested, generic |-> generic]
RuleTable ==
  << Rule({KW_MALWARE_CNC}, "MALWARE",
          << <<{KW_WIN_TROJAN}, "Trojan/Win.Jadtre">>,
             <<{KW_USER_AGENT}, "C&C Communication">> >>,
          "Malware Activity"),
     Rule({KW_EXPLOIT}, "EXPLOIT",
          << <<{KW_WIN32K}, "Privilege Escalation (Win32k)">>,
             <<{KW_JAVA_JRE, KW_WEBLOGIC}, "Remote Code Execution (Java)">>,
             <<{KW_ORACLE_9I}, "Buffer Overflow (Oracle)">>,
             <<{KW_IIS}, "Web Server Exploit">> >>,
          "Generic Exploit"),
     Rule({KW_NETBIOS}, "NETWORK",
          << <<{KW_DCERPC}, "RPC Service Exploit">>,
             <<{KW_SMB_DS}, "SMB Service Exploit">> >>,
          "Network Protocol Anomaly"),
     Rule({KW_INDICATOR_COMPROMISE}, "INDICATOR",
          << <<{KW_MYSQL}, "Database Reconnaissance">> >>,
          "Suspicious Activity"),
     Rule({KW_RCE}, "EXPLOIT", <<>>, "Remote Code Execution"),
     Rule({KW_PRIVILEGE, KW_ELEVATION}, "EXPLOIT", <<>>, "Privilege Escalation"),
     Rule({KW_BUFFER, KW_BO, KW_OVERFLOW}, "EXPLOIT", <<>>, "Buffer Overflow") >>

ContainsAny(sig, kws) == \E kw \in kws : Contains(sig, kw)
MinOf(S) == CHOOSE x \in S : \A y \in S : x <= y
\* the rules whose top-level predicate the upper-cased text satisfies
RulesHit(sig) == {r \in DOMAIN RuleTable : ContainsAny(sig, RuleTable[r].any)}
\* the detail a rule gives: its first nested check that matches, else its generic label
RuleDetail(rule, sig) ==
  LET hit == {n \in DOMAIN rule.nested : ContainsAny(sig, rule.nested[n][1])}
  IN IF hit = {} THEN rule.generic ELSE rule.nested[MinOf(hit)][2]
ExploitDetails ==
  {RuleTable[2].generic} \cup {RuleTable[2].nested[n][2] : n \in DOMAIN RuleTable[2].nested}

ClassifiedRows == IF pc = "distribution" THEN DOMAIN df.rows ELSE {}

\* C4: the main category of every classified event is that of the first rule,
\* in the order MALWARE-CNC, EXPLOIT, NETBIOS, INDICATOR-COMPROMISE, RCE,
\* PRIVILEGE/ELEVATION, BUFFER/BO/OVERFLOW, whose keyword occurs in the
\* upper-cased signature, and the detail is the first matching nested check of
\* that same rule, else its generic label; a signature with EXPLOIT and RCE but
\* without MALWARE-CNC gets a detail of the EXPLOIT branch, never
\* 'Remote Code Execution'.
C4_FirstRuleDecides ==
  \A i \in ClassifiedRows :
    LET row == df.rows[i]
        sig == Upper(row.signature)
        hit == RulesHit(sig)
    IN /\ hit # {} =>
            /\ row.threat_main_category = RuleTable[MinOf(hit)].main
            /\ row.threat_detailed_category = RuleDetail(RuleTable[MinOf(hit)], sig)
       /\ ( /\ Contains(sig, KW_EXPLOIT)
            /\ Contains(sig, KW_RCE)
            /\ ~Contains(sig, KW_MALWARE_CNC) ) =>
            /\ row.threat_main_category = "EXPLOIT"
            /\ row.threat_detailed_category \in ExploitDetails
            /\ row.threat_detailed_category # "Remote Code Execution"

\* C4 witness: a classified signature holding EXPLOIT and RCE, not MALWARE-CNC,
\* that received the generic EXPLOIT detail
C4_Witness ==
  \E i \in ClassifiedRows :
    LET sig == Upper(df.rows[i].signature)
    IN /\ Contains(sig, KW_EXPLOIT)
       /\ Contains(sig, KW_RCE)
       /\ ~Contains(sig, KW_MALWARE_CNC)
       /\ df.rows[i].threat_detailed_category = "Generic Exploit"

TopLevelKeywords == UNION {RuleTable[r].any : r \in DOMAIN RuleTable}
CategoryPairs ==
  {<<RuleTable[r].main, d>> :
     r \in DOMAIN RuleTable,
     d \in {"Trojan/Win.Jadtre", "C&C Communication", "Malware Activity",
            "Privilege Escalation (Win32k)", "Remote Code Execution (Java)",
            "Buffer Overflow (Oracle)", "Web Server Exploit", "Generic Exploit",
            "RPC Service Exploit", "SMB Service Exploit", "Network Protocol Anomaly",
            "Database Reconnaissance", "Suspicious Activity", "Remote Code Execution",
            "Privilege Escalation", "Buffer Overflow"}}
    \cup {<<"OTHER", "Uncategorized">>}

\* C5: classification never fails and gives every event one category pair;
\* the pair is (OTHER, Uncategorized) exactly when the upper-cased signature
\* contains none of the top-level keywords.
C5_TotalWithFallback ==
  /\ error = "none"
  /\ pc = "distribution" =>
       /\ Len(df.rows) = Len(events)
       /\ \A i \in DOMAIN df.rows :
            LET row == df.rows[i]
                pair == <<row.threat_main_category, row.threat_detailed_category>>
            IN /\ pair \in CategoryPairs
               /\ pair = <<"OTHER", "Uncategorized">>
                    <=> ~ContainsAny(Upper(row.signature), TopLevelKeywords)

\* C5 witness: a signature without any keyword (or the empty text left by
\* stripping) was classified as (OTHER, Uncategorized)
C5_Witness ==
  /\ pc = "distribution"
  /\ \E i \in DOMAIN df.rows :
       /\ df.rows[i].signature \in {<<"s","c","a","n">>, <<>>}
       /\ df.rows[i].threat_main_category = "OTHER"
       /\ df.rows[i].threat_detailed_category = "Uncategorized"

(* ===================== properties: the pattern search ================= *)
\* tokens[a : b] for 0 <= a <= b <= Len(tokens)
Window(tokens, a, b) == SubSeq(tokens, a + 1, b)

\* the start indices i in 0 .. len - 2*l at which the window of length l is
\* followed by an equal window
AdjacentRepeats(tokens, l) ==
  {i \in 0..(Len(tokens) - 2 * l) :
     Window(tokens, i, i + l) = Window(tokens, i + l, i + 2 * l)}

Upto(m) == [k \in 1..(m + 1) |-> k - 1]

\* C1: for a window length l >= 1 with 2*l <= len(tokens) the search examines
\* the start indices 0 .. len - 2*l in order up to the first i whose window
\* equals the next one, reports a match at that smallest i, and reports 'not
\* found' only when there is no such i; a sequence whose only repeat starts at
\* len - 2*l is reported as a match there with repetition count 1.
C1_FirstRepeatReported ==
  \A j \in DOMAIN report :
    LET e == report[j]
        l == e.length
        n == Len(signatures_list)
        S == AdjacentRepeats(signatures_list, l)
    IN (l >= 1 /\ 2 * l <= n) =>
         /\ S # {} => /\ e.kind = "match"
                      /\ e.start = <<MinOf(S)>>
                      /\ e.visited = Upto(MinOf(S))
         /\ S = {} => e.visited = Upto(n - 2 * l)
         /\ e.kind = "not_found" => S = {}
         /\ S = {n - 2 * l} => e.repetitions = 1

\* the k of K for which every window k' = 2 .. k lies inside the sequence and
\* equals the base window tokens[i : i+l]
RepeatRun(tokens, l, i, K) ==
  {k \in K : \A kk \in 2..k :
     /\ i + l * (kk + 1) <= Len(tokens)
     /\ PySlice(tokens, i + l * kk, i + l * (kk + 1)) = PySlice(tokens, i, i + l)}

ABABAB == <<TokA, TokB, TokA, TokB, TokA, TokB>>

C3_LengthsIndependent ==
  \A j \in DOMAIN report :
    report[j] = CheckLength(signatures_list, report[j].length, FALSE).entry

\* C7: a window length l <= 0 is rejected with an error; no match and no
\* 'not found' is ever reported for it.
C7_NonPositiveLengthRejected ==
  \A j \in DOMAIN report :
    report[j].length <= 0 =>
      /\ error # "none"
      /\ report[j].kind \notin {"match", "not_found"}

\* the extension checks recorded for the match e are k = 2, 3, ... in order,
\* at most cap of them, every one but possibly the last found equal to the
\* base window, and the loop ended for one of three reasons: the last window
\* checked differs, the next window would run past the end, or cap checks
\* were made
ExtensionStopsRightly(e, cap) ==
  LET n == Len(signatures_list)
      l == e.length
      i == e.start[1]
      m == Len(e.checks)
      base == PySlice(signatures_list, i, i + l)
      Matches(k) == PySlice(signatures_list, i + l * k, i + l * (k + 1)) = base
      Fits(k) == i + l * (k + 1) <= n
  IN /\ \A c \in 1..m : e.checks[c] = c + 1
     /\ m <= cap
     /\ \A c \in 1..(m - 1) : Matches(e.checks[c])
     /\ \/ (m >= 1 /\ ~Matches(e.checks[m]))
        \/ ~Fits(m + 2)
        \/ m = cap
     /\ ((\A c \in 1..m : Matches(e.checks[c])) /\ Fits(m + 2)) => m = cap

C12_TooShortReportsNotFound ==
  \A j \in DOMAIN report :
    LET e == report[j] IN
    (e.length >= 1 /\ 2 * e.length > Len(signatures_list)) =>
      /\ e.visited = <<>>
      /\ e.checks = <<>>
      /\ e.kind = "not_found"
      /\ error = "none"

(* ======================= properties: two runs ========================= *)
SecondRunEnded == run = 2 /\ pc \in {"done", "crashed"}

\* C13: a second run of the whole pipeline on the same ingested event list
\* ends with the same classified frame, signature counts, hour and date
\* histograms, heatmap table, pattern-search report and summary as the first
\* run, and ends the same way.
C13_SecondRunIdentical ==
  SecondRunEnded => RunOutputs = first_run[1]

\* C13 witness: a second run that ended after classifying, aggregating,
\* finding a repeated window and writing the summary, as the first did
C13_Witness ==
  /\ run = 2
  /\ pc = "done"
  /\ "threat_main_category" \in df.columns
  /\ Len(hourly_counts) >= 1
  /\ \E j \in DOMAIN report : report[j].kind = "match"
  /\ \E j \in DOMAIN report : report[j].kind = "not_found"
  /\ ~IsNull(summary_stats)
  /\ ~IsNull(first_run)

(* ================ properties: the search terminates =================== *)
\* one pass over a positive window length: the start indices were visited in
\* strictly increasing order inside the sequence, the pass ended at the first
\* visited index whose window equals the next one, and the extension checks
\* after it are at most ExtendStop - ExtendFirst, each of a window that lies
\* inside the sequence
BoundedPass(e) ==
  LET n == Len(signatures_list)
      l == e.length
      Repeats(i) == PySlice(signatures_list, i, i + l) =
                      PySlice(signatures_list, i + l, i + 2 * l)
  IN /\ \A a \in DOMAIN e.visited : e.visited[a] \in 0..(n - 1)
     /\ \A a, b \in DOMAIN e.visited : a < b => e.visited[a] < e.visited[b]
     /\ \A a \in 1..(Len(e.visited) - 1) : ~Repeats(e.visited[a])
     /\ IF e.kind = "match"
        THEN /\ e.visited # <<>>
             /\ e.start = <<e.visited[Len(e.visited)]>>
             /\ Repeats(e.start[1])
        ELSE /\ \A a \in DOMAIN e.visited : ~Repeats(e.visited[a])
             /\ e.checks = <<>>
     /\ Len(e.checks) <= ExtendStop - ExtendFirst
     /\ \A c \in DOMAIN e.checks :
          e.kind = "match" => e.start[1] + l * (e.checks[c] + 1) <= n

AllPassesBounded ==
  /\ Len(report) <= Len(pattern_lengths_to_check)
  /\ \A j \in DOMAIN report : report[j].length >= 1 => BoundedPass(report[j])

AllLengthsPositive ==
  \A j \in DOMAIN pattern_lengths_to_check : pattern_lengths_to_check[j] >= 1

DetectorReturned == pc \in {"temporal_done", "visualized", "done"}

\* C15: for positive window lengths the pattern search terminates: per
\* length it visits start indices in strictly increasing order, each once,
\* stops at its first match, then makes a bounded number of extension checks,
\* each of a window that lies inside the sequence (i + l*(k+1) <= len); and
\* after the last length the search returns.
C15_DetectorTerminates ==
  /\ []AllPassesBounded
  /\ AllLengthsPositive => <>DetectorReturned

\* C15 witness: the search returned after a pass that met its first match
\* past index 0 and extended it up to the last window that fits
C15_Witness ==
  /\ DetectorReturned
  /\ AllLengthsPositive
  /\ \E j \in DOMAIN report :
       /\ report[j].kind = "match"
       /\ report[j].start[1] >= 1
       /\ Len(report[j].checks) >= 1
       /\ report[j].start[1] + report[j].length * (Len(report[j].checks) + 2)
            = Len(signatures_list)

(* ==================== properties: ingestion order ===================== *)
\* the signatures of the ingested events, in ingestion order
IngestedSignatures == [i \in 1..Len(events) |-> Strip(events[i].signature)]

\* the pattern search has taken its token sequence
TokensTaken == pc = "patterns" \/ report # <<>>

CategoryFields == {"threat_main_category", "threat_detailed_category"}

\* C14: once loaded, the frame holds the ingested events one row each in
\* ingestion order, with the signature and the timestamp as loaded, through
\* classification, aggregation, pattern search, heatmap and summary;
\* classification adds the two category fields and nothing else; and the
\* token sequence the pattern search scans is the signature of every event
\* in ingestion order, those with an invalid timestamp included.
C14_IngestionOrderKept ==
  pc # "start" =>
    /\ Len(df.rows) = Len(events)
    /\ \A i \in DOMAIN df.rows :
         /\ df.rows[i].signature = IngestedSignatures[i]
         /\ "timestamp" \in df.columns =>
              df.rows[i].timestamp = ToDatetime(events[i].timestamp)
         /\ DOMAIN df.rows[i] = df.columns
    /\ df.columns \ LoadFrame(events).columns \subseteq CategoryFields
    /\ (pc # "loaded" /\ Len(events) >= 1) => CategoryFields \subseteq df.columns
    /\ TokensTaken => signatures_list = IngestedSignatures

\* C14 witness: the run ended on three events of which the first is later
\* in time than the third and the second has an invalid timestamp; the
\* pattern search scanned all three signatures in ingestion order
C14_Witness ==
  /\ pc = "done"
  /\ Len(events) = 3
  /\ events[1].timestamp.kind = "iso"
  /\ events[2].timestamp.kind = "text"
  /\ events[3].timestamp.kind = "iso"
  /\ TupleLess(events[3].timestamp.value, events[1].timestamp.value)
  /\ events[1].signature # events[3].signature
  /\ Len(report) >= 1
  /\ signatures_list = IngestedSignatures
  /\ CategoryFields \subseteq df.columns

(* ================= properties: aggregates and summary ================= *)
\* the events of the ingested list whose timestamp is a time
ValidEvents == {i \in DOMAIN events : events[i].timestamp.kind = "iso"}
DateOf(i) == SubSeq(events[i].timestamp.value, 1, 3)
HourOf(i) == events[i].timestamp.value[4]

\* the sum of the counts of a histogram
RECURSIVE SumCounts(_)
SumCounts(items) ==
  IF items = <<>> THEN 0 ELSE items[1][2] + SumCounts(Tail(items))

AfterAggregates == pc \notin {"start", "loaded", "distribution"}

\* C6: with at least one event and no valid timestamp the run raises no
\* error, the three aggregates are empty, and the run goes on through the
\* pattern search (an outcome for every configured length) to its end.
C6_NoValidTimestampCompletes ==
  (Len(events) >= 1 /\ ValidEvents = {}) =>
    /\ error = "none"
    /\ pc # "crashed"
    /\ AfterAggregates =>
         /\ hourly_counts = <<>>
         /\ daily_counts = <<>>
         /\ heatmap_data.cells = <<>>
    /\ pc \in {"temporal_done", "visualized", "done"} =>
         Len(report) = Len(pattern_lengths_to_check)

\* C8: the hour histogram and the date histogram each count exactly the
\* events with a valid timestamp, bucket by bucket and in total; an event
\* with an invalid timestamp is in no bucket.
C8_HistogramsCountValidEvents ==
  (AfterAggregates /\ pc # "crashed" /\ "timestamp" \in df.columns) =>
    /\ SumCounts(hourly_counts) = Cardinality(ValidEvents)
    /\ SumCounts(daily_counts) = Cardinality(ValidEvents)
    /\ \A b \in DOMAIN hourly_counts :
         hourly_counts[b][2] =
           Cardinality({i \in ValidEvents : HourOf(i) = hourly_counts[b][1]})
    /\ \A b \in DOMAIN daily_counts :
         daily_counts[b][2] =
           Cardinality({i \in ValidEvents : DateOf(i) = daily_counts[b][1]})

\* C8 witness: histograms built from a list holding valid and invalid timestamps
C8_Witness ==
  /\ pc = "patterns"
  /\ Cardinality(ValidEvents) = 2
  /\ Len(events) = 3
  /\ SumCounts(hourly_counts) = 2
  /\ Len(daily_counts) = 2

HeatmapBuilt ==
  /\ pc \in {"visualized", "done"}
  /\ ~IsNull(signature_counts)
  /\ "hour" \in df.columns

RowOf(i) == CHOOSE r \in DOMAIN heatmap_data.index :
              heatmap_data.index[r] = df.rows[i].date_str
ColOf(i) == CHOOSE c \in DOMAIN heatmap_data.columns :
              heatmap_data.columns[c] = HourOf(i)

RECURSIVE SumSeq(_)
SumSeq(q) == IF q = <<>> THEN 0 ELSE q[1] + SumSeq(Tail(q))
SumCells(cells) == SumSeq([r \in DOMAIN cells |-> SumSeq(cells[r])])

\* C9: the date-by-hour matrix has one row per date and one column per hour
\* of the events with a valid timestamp and none for the others, rows in
\* ascending date order; the cell (d, h) is the number of events of date d
\* and hour h, 0 when there is none, and the cells sum to the number of
\* events with a valid timestamp.
C9_MatrixCountsValidEvents ==
  HeatmapBuilt =>
    LET hm == heatmap_data IN
    /\ Len(hm.index) = Cardinality({DateOf(i) : i \in ValidEvents})
    /\ Len(hm.columns) = Cardinality({HourOf(i) : i \in ValidEvents})
    /\ \A i \in ValidEvents :
         /\ \E r \in DOMAIN hm.index : hm.index[r] = df.rows[i].date_str
         /\ \E c \in DOMAIN hm.columns : hm.columns[c] = HourOf(i)
         /\ hm.cells[RowOf(i)][ColOf(i)] =
              Cardinality({j \in ValidEvents :
                             DateOf(j) = DateOf(i) /\ HourOf(j) = HourOf(i)})
    /\ \A i, j \in ValidEvents :
         TupleLess(DateOf(i), DateOf(j)) => RowOf(i) < RowOf(j)
    /\ \A r \in DOMAIN hm.index : \A c \in DOMAIN hm.columns :
         (~\E i \in ValidEvents : RowOf(i) = r /\ ColOf(i) = c) => hm.cells[r][c] = 0
    /\ SumCells(hm.cells) = Cardinality(ValidEvents)

\* C9 witness: a matrix of two dates and two hours with an empty cell, built
\* from a list that also holds an event without a valid timestamp
C9_Witness ==
  /\ HeatmapBuilt
  /\ Len(heatmap_data.index) = 2
  /\ Len(heatmap_data.columns) = 2
  /\ heatmap_data.cells[1][1] = 0
  /\ Cardinality(ValidEvents) < Len(events)

\* the signatures of the frame with the largest number of rows
SignatureCount(sig) == Cardinality({i \in DOMAIN df.rows : df.rows[i].signature = sig})
MostFrequentSignatures ==
  {df.rows[i].signature : i \in {k \in DOMAIN df.rows :
     \A j \in DOMAIN df.rows :
       SignatureCount(df.rows[j].signature) <= SignatureCount(df.rows[k].signature)}}
\* of those, the one met first in ingestion order
FirstIngestedMostFrequent ==
  df.rows[MinOf({i \in DOMAIN df.rows : df.rows[i].signature \in MostFrequentSignatures})].signature

SummaryWritten == pc = "done" /\ ~IsNull(summary_stats)

\* C10 as stated: the summary's most frequent signature has the maximal
\* count and, in a tie, is the tied signature first in ingestion order.
C10_TieFirstIngested ==
  SummaryWritten =>
    /\ summary_stats[1].top_signature[1] \in MostFrequentSignatures
    /\ summary_stats[1].top_signature[1] = FirstIngestedMostFrequent

\* C10 amended: the summary's most frequent signature has the maximal count
\* and, in a tie, is the tied signature that is smallest in string order.
C10_TieSmallestText ==
  SummaryWritten =>
    /\ summary_stats[1].top_signature[1] \in MostFrequentSignatures
    /\ \A s \in MostFrequentSignatures :
         s = summary_stats[1].top_signature[1]
         \/ StrLess(summary_stats[1].top_signature[1], s)

\* C10 witness: two signatures tie and the one reported is not the one
\* ingested first
C10_Witness ==
  /\ SummaryWritten
  /\ Cardinality(MostFrequentSignatures) = 2
  /\ summary_stats[1].top_signature[1] # FirstIngestedMostFrequent

=============================================================================
